---- MODULE Spec2Model ----
(***************************************************************************)
(* A model of the TippZone live monitoring bot                             *)
(* (src/live_monitoring_bot.py): the polling loop, the processed-event     *)
(* cache, event extraction with team identification, and the progressive   *)
(* score.                                                                  *)
(*                                                                         *)
(* Python values are represented as follows.                               *)
(*   - an int field holds a natural number, or None (key absent / None);   *)
(*   - a str field holds a sequence of tokens (each token a piece of the   *)
(*     text; result tags are spelled one character per token so that       *)
(*     str.lower() is computed), or NoneS (key absent / None);             *)
(*   - a dict is a record, a list is a sequence, a set is a set.           *)
(***************************************************************************)
EXTENDS Integers, Sequences, FiniteSets, TLC

VARIABLES
    pc,                \* position of the coroutine start()/monitoring_loop()
    api_token,         \* self.api_token is set (TRUE) or missing (FALSE)
    telegram_token,    \* self.telegram_token is set or missing
    bot,               \* self.bot is a Bot (TRUE) or None (FALSE)
    filtered,          \* filtered_matches of the running cycle
    i,                 \* index of the match being processed in filtered
    processed_events,  \* self.processed_events
    last_sent,         \* self.last_sent
    log,               \* calls of send_telegram_message in the running cycle
    life,              \* per event id: what was sent since its match was last cleaned up
    err,               \* outcome flags of the running cycle
    cycles,            \* number of finished cycles (counted only by the two-pass runs)
    feed,              \* the snapshot the provider serves (two-pass runs only)
    attr,              \* a run of extract_events on one match
    score,             \* a run of calculate_progressive_score
    req                \* a run of get_live_matches

vars == <<pc, api_token, telegram_token, bot, filtered, i,
          processed_events, last_sent, log, life, err, cycles, feed, attr, score, req>>

-----------------------------------------------------------------------------
(* Python values *)

None == -1
NoneS == <<"<None>">>
Unknown == <<"Ismeretlen">>

Truthy(x) == x # None /\ x # 0
OrElse(x, y) == IF Truthy(x) THEN x ELSE y
OrZero(x) == OrElse(x, 0)

GOAL_EVENT_IDS == {14, 15, 16}
CardsAndSubstitutions == {18, 19, 20, 21}
CARD_EVENT_IDS == {19, 20, 21}
OWN_GOAL == 16
WhitelistedLeagues ==
    {2, 5, 8, 9, 12, 14, 72, 74, 82, 85, 88, 181, 184, 208, 211, 244, 262, 265, 271, 274,
     292, 295, 301, 304, 313, 325, 360, 363, 372, 375, 384, 387, 444, 447, 453, 456, 462,
     465, 474, 564, 567, 573, 579, 591, 594, 600, 603, 636, 645, 648, 651, 663, 720, 959,
     968, 983, 989, 992, 1022, 1025, 1034, 1037, 1203, 1204, 1205, 2286}
TerminalStatuses == {<<"FT">>, <<"AET">>, <<"FT_PEN">>, <<"FT_ET">>, <<"ENDED">>}
VoidResults == {<<"c","a","n","c","e","l","l","e","d">>,
                <<"d","i","s","a","l","l","o","w","e","d">>,
                <<"v","o","i","d">>}

\* str.lower() on one token: upper-case letters map to lower case, all else is kept
LowerTok(c) ==
    CASE c = "A" -> "a" [] c = "B" -> "b" [] c = "C" -> "c" [] c = "D" -> "d"
      [] c = "E" -> "e" [] c = "I" -> "i" [] c = "L" -> "l" [] c = "N" -> "n"
      [] c = "O" -> "o" [] c = "R" -> "r" [] c = "S" -> "s" [] c = "V" -> "v"
      [] c = "W" -> "w" [] OTHER -> c
Lower(s) == [k \in 1..Len(s) |-> LowerTok(s[k])]

\* str.strip(): leading and trailing blanks removed
RECURSIVE StripLeft(_)
StripLeft(s) == IF s # <<>> /\ Head(s) = " " THEN StripLeft(Tail(s)) ELSE s
RECURSIVE StripRight(_)
StripRight(s) ==
    IF s # <<>> /\ s[Len(s)] = " " THEN StripRight(SubSeq(s, 1, Len(s) - 1)) ELSE s
Strip(s) == StripRight(StripLeft(s))

\* index of the first TRUE of a list of test results from k on, 0 when there is none
RECURSIVE FirstIdx(_, _)
FirstIdx(hits, k) ==
    IF k > Len(hits) THEN 0 ELSE IF hits[k] THEN k ELSE FirstIdx(hits, k + 1)

\* tuple comparison (a1, a2, a3) > (b1, b2, b3)
KeyGT(a, b) ==
    \/ a[1] > b[1]
    \/ a[1] = b[1] /\ a[2] > b[2]
    \/ a[1] = b[1] /\ a[2] = b[2] /\ a[3] > b[3]

-----------------------------------------------------------------------------
(* Pure helpers of LiveMonitoringBot *)

NoFilter(matches) == matches
\* filter_matches_by_league
filter_matches_by_league(matches) ==
    SelectSeq(matches, LAMBDA m: m.league_id \in WhitelistedLeagues)

\* the last participant carrying a location tag, 0 when there is none
RECURSIVE LastWithLoc(_, _, _)
LastWithLoc(ps, loc, k) ==
    IF k = 0 THEN 0 ELSE IF ps[k].location = loc THEN k ELSE LastWithLoc(ps, loc, k - 1)

NameOrUnknown(name) == IF name = NoneS THEN Unknown ELSE name

\* extract_team_names: (home_team, away_team)
extract_team_names(match) ==
    LET ps == match.participants
        h == LastWithLoc(ps, <<"home">>, Len(ps))
        a == LastWithLoc(ps, <<"away">>, Len(ps))
    IN  <<IF h = 0 THEN Unknown ELSE NameOrUnknown(ps[h].name),
          IF a = 0 THEN Unknown ELSE NameOrUnknown(ps[a].name)>>

\* the last entry of match['scores'] for a side, 0 when there is none
RECURSIVE LastScoreOf(_, _, _)
LastScoreOf(scs, side, k) ==
    IF k = 0 THEN 0
    ELSE IF scs[k].participant = side THEN k ELSE LastScoreOf(scs, side, k - 1)

\* extract_score: (home_score, away_score)
extract_score(match) ==
    LET scs == match.scores
        sh == LastScoreOf(scs, <<"home">>, Len(scs))
        sa == LastScoreOf(scs, <<"away">>, Len(scs))
        hs == IF sh = 0 THEN 0 ELSE scs[sh].goals
        as == IF sa = 0 THEN 0 ELSE scs[sa].goals
        ps == match.participants
        ph == LastWithLoc(ps, <<"home">>, Len(ps))
        pa == LastWithLoc(ps, <<"away">>, Len(ps))
    IN  IF hs = 0 /\ as = 0
        THEN <<IF ph = 0 THEN 0 ELSE ps[ph].score, IF pa = 0 THEN 0 ELSE ps[pa].score>>
        ELSE <<hs, as>>

\* extract_league_name
extract_league_name(match) == match.league_name

\* get_player_team_mapping: the lineup rows in the order they are written into the
\* two dicts; a later row overwrites an earlier one with the same key
RECURSIVE LineupRows(_)
LineupRows(lineups) ==
    IF lineups = <<>> THEN <<>>
    ELSE LET l == Head(lineups)
         IN  [k \in 1..Len(l.players) |->
                 [player_name |-> l.players[k].name,
                  player_id   |-> l.players[k].id,
                  team_id     |-> l.participant_id,
                  team_name   |-> NameOrUnknown(l.participant_name)]]
             \o LineupRows(Tail(lineups))

\* index of the last TRUE of a list of test results up to k, 0 when there is none
RECURSIVE LastRow(_, _)
LastRow(hits, k) ==
    IF k = 0 THEN 0 ELSE IF hits[k] THEN k ELSE LastRow(hits, k - 1)

\* player_team_map: the row that defines the entry of a player name, 0 when absent
NameRow(match, pn) ==
    LET rows == LineupRows(match.lineups)
    IN  LastRow([k \in DOMAIN rows |->
                    /\ rows[k].player_name # NoneS /\ rows[k].player_name # <<>>
                    /\ rows[k].player_name = pn], Len(rows))
InPlayerTeamMap(match, pn) == NameRow(match, pn) # 0
PlayerTeamMap(match, pn) == LineupRows(match.lineups)[NameRow(match, pn)].team_name

\* player_to_team_id: the row that defines the entry of a player id, 0 when absent
IdRow(match, pid) ==
    LET rows == LineupRows(match.lineups)
    IN  LastRow([k \in DOMAIN rows |->
                    /\ Truthy(rows[k].player_id) /\ Truthy(rows[k].team_id)
                    /\ rows[k].player_id = pid], Len(rows))
NotInLineups(match, pid) == FALSE
InPlayerToTeamId(match, pid) == IdRow(match, pid) # 0
PlayerToTeamId(match, pid) == LineupRows(match.lineups)[IdRow(match, pid)].team_id

\* str.upper() on one token
UpperTok(c) ==
    CASE c = "h" -> "H" [] c = "e" -> "E" [] c = "t" -> "T" [] c = "p" -> "P"
      [] c = "n" -> "N" [] c = "a" -> "A" [] c = "s" -> "S" [] c = "o" -> "O"
      [] OTHER -> c
Upper(s) == [k \in 1..Len(s) |-> UpperTok(s[k])]

\* display_minute: the text as (form, minute, added)
display_minute(event, state) ==
    LET em == IF "minute" \in DOMAIN event THEN event.minute ELSE None
        ex == IF "extra_minute" \in DOMAIN event THEN event.extra_minute ELSE None
        m == OrElse(em, OrElse(state.minute, 0))
        added == OrElse(ex, OrElse(state.added_time, 0))
        period == Upper(IF state.period = NoneS THEN <<>> ELSE state.period)
    IN  IF period \in {<<"1","H">>, <<"H","1">>}
        THEN IF m >= 45 /\ added > 0
             THEN [form |-> "45+N. perc", m |-> None, added |-> added]
             ELSE [form |-> "M. perc", m |-> m, added |-> None]
        ELSE IF period \in {<<"2","H">>, <<"H","2">>}
        THEN IF m > 90 /\ added > 0
             THEN [form |-> "90+N. perc", m |-> None, added |-> added]
             ELSE [form |-> "M. perc", m |-> m, added |-> None]
        ELSE IF period \in {<<"E","T">>, <<"A","E","T">>, <<"E","1">>, <<"E","2">>}
        THEN [form |-> "ET M. perc", m |-> m, added |-> None]
        ELSE IF period \in {<<"P","E","N">>, <<"P","S","O">>}
        THEN [form |-> "PEN", m |-> None, added |-> None]
        ELSE [form |-> "M. perc", m |-> m, added |-> None]


-----------------------------------------------------------------------------
(* extract_events *)

IsVoidExact(res) == res \in VoidResults
\* the VAR/cancelled test on a raw event's result tag
IsVoidResult(res) == Lower(IF res = NoneS THEN <<>> ELSE res) \in VoidResults

\* next((p['name'] for p in participants if <test>), team_name): the name of the
\* first participant passing the test (hits holds the test's result per
\* participant); raises KeyError when that participant has no name
LookupName(match, hits) ==
    LET ps == match.participants
        k == FirstIdx(hits, 1)
    IN  IF k = 0 THEN [raises |-> FALSE, team_name |-> Unknown]
        ELSE IF ps[k].name = NoneS THEN [raises |-> TRUE, team_name |-> Unknown]
        ELSE [raises |-> FALSE, team_name |-> ps[k].name]

\* the if/elif chain that picks the team of an event
IdentifyTeam(match, event) ==
    LET player_name == NameOrUnknown(event.player_name)
        pid == event.player_id
        tid == OrElse(event.team_id, event.participant_id)
        loc == event.location
        ps == match.participants
    IN  IF Truthy(tid)
        THEN LookupName(match, [k \in DOMAIN ps |-> ps[k].id = tid])
        ELSE IF Truthy(pid) /\ InPlayerToTeamId(match, pid)
        THEN LookupName(match, [k \in DOMAIN ps |-> ps[k].id = PlayerToTeamId(match, pid)])
        ELSE IF loc \in {<<"home">>, <<"away">>}
        THEN LookupName(match, [k \in DOMAIN ps |-> ps[k].location = loc])
        ELSE IF InPlayerTeamMap(match, player_name)
        THEN [raises |-> FALSE, team_name |-> PlayerTeamMap(match, player_name)]
        ELSE [raises |-> FALSE, team_name |-> Unknown]

\* the extra fallback on the event's own team_name
TeamNameFallback(event, team_name) ==
    IF team_name = Unknown /\ event.team_name # NoneS /\ Strip(event.team_name) # <<>>
    THEN Strip(event.team_name)
    ELSE team_name

\* the event_data dict built for one valid event
EventData(match, event) ==
    [id          |-> event.id,
     type_id     |-> event.type_id,
     minute      |-> event.minute,
     player_name |-> NameOrUnknown(event.player_name),
     player_id   |-> event.player_id,
     team_name   |-> TeamNameFallback(event, IdentifyTeam(match, event).team_name)]

ValidEvents(match) == SelectSeq(match.events, LAMBDA e: ~IsVoidResult(e.result))

extract_resolved(match) ==
    [raises |-> FALSE,
     events |-> SelectSeq([k \in 1..Len(ValidEvents(match)) |->
                              EventData(match, ValidEvents(match)[k])],
                          LAMBDA d: d.team_name # Unknown)]

\* extract_events: the list returned, or the exception raised
extract_events(match) ==
    LET valid == ValidEvents(match)
    IN  IF \E k \in 1..Len(valid) : IdentifyTeam(match, valid[k]).raises
        THEN [raises |-> TRUE, events |-> <<>>]
        ELSE [raises |-> FALSE,
              events |-> [k \in 1..Len(valid) |-> EventData(match, valid[k])]]

-----------------------------------------------------------------------------
(* calculate_progressive_score *)

Get(d, key) == IF key \in DOMAIN d THEN d[key] ELSE None

SortKey(e) == <<OrZero(Get(e, "minute")), OrZero(Get(e, "extra_minute")), OrZero(Get(e, "id"))>>

\* list.sort(key=...): a stable sort, ascending
RECURSIVE InsertSorted(_, _)
InsertSorted(sorted, e) ==
    IF sorted = <<>> THEN <<e>>
    ELSE IF KeyGT(SortKey(Head(sorted)), SortKey(e)) THEN <<e>> \o sorted
    ELSE <<Head(sorted)>> \o InsertSorted(Tail(sorted), e)
RECURSIVE SortEvents(_)
SortEvents(s) ==
    IF s = <<>> THEN <<>> ELSE InsertSorted(SortEvents(SubSeq(s, 1, Len(s) - 1)), s[Len(s)])

GoalEvents(match) ==
    SortEvents(SelectSeq(match.events, LAMBDA e: e.type_id \in GOAL_EVENT_IDS))

\* home_team_id / away_team_id
SideTeamId(match, side) ==
    LET ps == match.participants
        k == LastWithLoc(ps, side, Len(ps))
    IN  IF k = 0 THEN None ELSE ps[k].id

\* the side of the first participant named tname, NoneS when there is none
SideOfName(match, tname) ==
    LET ps == match.participants
        k == FirstIdx([n \in DOMAIN ps |-> ps[n].name = tname], 1)
    IN  IF k = 0 THEN NoneS
        ELSE IF ps[k].location = <<"home">> THEN <<"home">> ELSE <<"away">>

\* scored_side of a goal event before the own-goal inversion, NoneS when unresolved
ScoredSide(match, g) ==
    LET tid == OrElse(g.team_id, g.participant_id)
        loc == g.location
        home_team_id == SideTeamId(match, <<"home">>)
        away_team_id == SideTeamId(match, <<"away">>)
        pid == g.player_id
        pn == g.player_name
    IN  IF Truthy(tid) /\ tid = home_team_id THEN <<"home">>
        ELSE IF Truthy(tid) /\ tid = away_team_id THEN <<"away">>
        ELSE IF loc = <<"home">> THEN <<"home">>
        ELSE IF loc = <<"away">> THEN <<"away">>
        ELSE IF Truthy(pid) /\ InPlayerToTeamId(match, pid)
        THEN IF PlayerToTeamId(match, pid) = home_team_id THEN <<"home">>
             ELSE IF PlayerToTeamId(match, pid) = away_team_id THEN <<"away">>
             ELSE NoneS
        ELSE IF InPlayerTeamMap(match, pn) /\ PlayerTeamMap(match, pn) # <<>>
        THEN SideOfName(match, PlayerTeamMap(match, pn))
        ELSE NoneS

NoInversion(side, g_type) == side

\* the own-goal rule: the side a resolved goal is written to
CreditedSide(side, g_type) ==
    IF g_type = OWN_GOAL
    THEN IF side = <<"away">> THEN <<"home">> ELSE <<"away">>
    ELSE side

GuessHome(match, g, ha) ==
    IF CreditedSide(ScoredSide(match, g), g.type_id) = <<"away">>
    THEN <<ha[1], ha[2] + 1>>
    ELSE <<ha[1] + 1, ha[2]>>

\* one pass of the loop body after the break test: the tallies after goal g
ScoreStep(match, g, ha) ==
    LET side == ScoredSide(match, g)
    IN  IF side = NoneS THEN ha
        ELSE IF CreditedSide(side, g.type_id) = <<"home">>
        THEN <<ha[1] + 1, ha[2]>>
        ELSE <<ha[1], ha[2] + 1>>

\* the break test: goal g lies after the current event
AfterCurrent(g, current_event) == KeyGT(SortKey(g), SortKey(current_event))

RECURSIVE ScoreFrom(_, _, _, _, _)
ScoreFrom(match, goals, k, current_event, ha) ==
    IF k > Len(goals) \/ AfterCurrent(goals[k], current_event) THEN ha
    ELSE ScoreFrom(match, goals, k + 1, current_event, ScoreStep(match, goals[k], ha))

\* calculate_progressive_score: (h, a)
calculate_progressive_score(match, current_event) ==
    ScoreFrom(match, GoalEvents(match), 1, current_event, <<0, 0>>)

-----------------------------------------------------------------------------
(* Messages *)

\* generate_goal_message
generate_goal_message(match, event) ==
    [kind        |-> "goal",
     league      |-> extract_league_name(match),
     home_team   |-> extract_team_names(match)[1],
     away_team   |-> extract_team_names(match)[2],
     home_score  |-> calculate_progressive_score(match, event)[1],
     away_score  |-> calculate_progressive_score(match, event)[2],
     minute      |-> display_minute(event, match.state),
     player_name |-> event.player_name,
     team_name   |-> event.team_name]

CardType(type_id) ==
    IF type_id = 19 THEN "yellow" ELSE IF type_id = 21 THEN "second_yellow" ELSE "red"

\* generate_card_message
generate_card_message(match, event, card_type) ==
    [kind        |-> card_type,
     league      |-> extract_league_name(match),
     home_team   |-> extract_team_names(match)[1],
     away_team   |-> extract_team_names(match)[2],
     home_score  |-> None,
     away_score  |-> None,
     minute      |-> display_minute(event, match.state),
     player_name |-> event.player_name,
     team_name   |-> event.team_name]


-----------------------------------------------------------------------------
(* The snapshots the provider serves *)

MatchIds == {1, 2}

\* Sub-event identifiers are unique across matches: match 1 owns {1, 2}, match 2
\* owns {3}
EventIds == {1, 2, 3}
Owner(e) == IF e <= 2 THEN 1 ELSE 2

Home(name) == [id |-> 1, name |-> name, location |-> <<"home">>, score |-> 0]
Away == [id |-> 2, name |-> <<"Beta FC">>, location |-> <<"away">>, score |-> 0]

RawEvent(id, type_id, minute, extra_minute, result, team_id) ==
    [id |-> id, type_id |-> type_id, minute |-> minute, extra_minute |-> extra_minute,
     result |-> result, team_id |-> team_id, participant_id |-> None,
     location |-> NoneS, player_id |-> None, player_name |-> NoneS, team_name |-> NoneS]

ResultTags(e) ==
    IF e = 1 THEN {NoneS, <<"D","i","s","a","l","l","o","w","e","d">>}
    ELSE IF e = 2 THEN {NoneS}
    ELSE {NoneS, <<"V","O","I","D">>}

\* the raw forms a sub-event can take in a snapshot
RawForms(e) ==
    {RawEvent(e, IF e = 2 THEN 19 ELSE 14, 10 + e, None, r, IF e = 2 THEN 2 ELSE 1) :
        r \in ResultTags(e)}

\* the event lists a match can carry: any of its sub-events, in identifier order
RECURSIVE EventLists(_)
EventLists(ids) ==
    IF ids = {} THEN {<<>>}
    ELSE LET e == CHOOSE x \in ids : \A y \in ids : x >= y
             rest == EventLists(ids \ {e})
         IN  rest \cup {Append(l, f) : l \in rest, f \in RawForms(e)}

LoopStatuses == {<<"LIVE">>, <<"FT">>}
Leagues(m) == IF m = 1 THEN {8} ELSE {8, 7}
HomeNames(m) == IF m = 1 THEN {<<"Alpha FC">>, NoneS} ELSE {<<"Alpha FC">>}

Match(m, league_id, status, home_name, evs) ==
    [id |-> m, league_id |-> league_id, league_name |-> <<"Liga">>,
     state |-> [status |-> status, period |-> <<"2","H">>, minute |-> 50, added_time |-> None],
     participants |-> <<Home(home_name), Away>>,
     events |-> evs, lineups |-> <<>>, scores |-> <<>>]

MatchPool(m) ==
    {Match(m, l, st, hn, evs) :
        l \in Leagues(m), st \in LoopStatuses, hn \in HomeNames(m),
        evs \in EventLists({e \in EventIds : Owner(e) = m})}

\* lists of matches with distinct ids
RECURSIVE SnapshotsOver(_)
SnapshotsOver(ms) ==
    {<<>>} \cup UNION {{<<x>> \o rest : x \in MatchPool(m), rest \in SnapshotsOver(ms \ {m})} :
                        m \in ms}
Snapshots == SnapshotsOver(MatchIds)


-----------------------------------------------------------------------------
(* process_match_events *)

NeverProcessed(event_id, processed) == FALSE
\* the debounce test
AlreadyProcessed(event_id, processed) == event_id \in processed

\* self.processed_events.add(event_id) after send_telegram_message returned; sent
\* tells whether the message went out
MarkOnlyIfSent(processed, event_id, sent) ==
    IF sent THEN processed \cup {event_id} ELSE processed
MarkProcessed(processed, event_id, sent) == processed \cup {event_id}

\* send_telegram_message: TRUE when the message went out; an uninitialised bot and
\* a failed send are logged and swallowed
SendOutcome(has_bot, delivered) == has_bot /\ delivered

NoLife == [e \in EventIds |-> "none"]
NoFlags == [fetch |-> FALSE, cycle |-> FALSE, failed |-> 0, done |-> {}, swept |-> FALSE]

\* the for loop over the extracted events from index k on; st carries
\* processed_events, the calls of send_telegram_message and their record per id
RECURSIVE RunEvents(_, _, _, _, _)
RunEvents(match, evs, k, delivered, st) ==
    IF k > Len(evs) THEN st
    ELSE LET event == evs[k]
             goal == event.type_id \in GOAL_EVENT_IDS
             card == event.type_id \in CARD_EVENT_IDS
             message == IF goal THEN generate_goal_message(match, event)
                        ELSE generate_card_message(match, event, CardType(event.type_id))
             sent == SendOutcome(st.bot, delivered[k])
         IN  IF AlreadyProcessed(event.id, st.processed) \/ ~(goal \/ card)
             THEN RunEvents(match, evs, k + 1, delivered, st)
             ELSE RunEvents(match, evs, k + 1, delivered,
                      [st EXCEPT
                          !.processed = MarkProcessed(@, event.id, sent),
                          !.log = Append(@, [match_id |-> match.id, id |-> event.id,
                                             sent |-> sent, message |-> message]),
                          !.life = IF event.id \in DOMAIN st.life
                                   THEN [st.life EXCEPT
                                            ![event.id] = IF sent THEN "sent" ELSE "lost"]
                                   ELSE st.life])

-----------------------------------------------------------------------------
(* start and monitoring_loop *)

Idle ==
    /\ filtered = <<>> /\ i = 0
    /\ processed_events = {} /\ last_sent = <<>>
    /\ log = <<>> /\ life = NoLife /\ err = NoFlags
    /\ cycles = 0 /\ attr = <<>> /\ score = <<>> /\ req = <<>>

Init ==
    /\ pc = "start"
    /\ api_token \in BOOLEAN /\ telegram_token \in BOOLEAN
    /\ bot = FALSE /\ feed = <<>>
    /\ Idle

\* start(): the token validation, initialize_telegram and the startup message
StartRefused ==
    /\ pc = "start"
    /\ ~api_token \/ ~telegram_token
    /\ pc' = "stopped"
    /\ UNCHANGED <<api_token, telegram_token, bot, filtered, i, processed_events,
                   last_sent, log, life, err, cycles, feed, attr, score, req>>

StartUnchecked ==
    /\ pc = "start"
    /\ \E made \in BOOLEAN, delivered \in BOOLEAN :
          /\ bot' = made
          /\ log' = <<[match_id |-> None, id |-> None,
                       sent |-> SendOutcome(made, delivered), message |-> "startup"]>>
    /\ pc' = "poll"
    /\ UNCHANGED <<api_token, telegram_token, filtered, i, processed_events,
                   last_sent, life, err, cycles, feed, attr, score, req>>

Start ==
    /\ pc = "start"
    /\ api_token /\ telegram_token
    /\ \E made \in BOOLEAN, delivered \in BOOLEAN :
          /\ bot' = made
          /\ log' = <<[match_id |-> None, id |-> None,
                       sent |-> SendOutcome(made, delivered), message |-> "startup"]>>
    /\ pc' = "poll"
    /\ UNCHANGED <<api_token, telegram_token, filtered, i, processed_events,
                   last_sent, life, err, cycles, feed, attr, score, req>>

\* the top of the while loop with get_live_matches returning matches
Poll(matches, failed) ==
    /\ pc = "poll"
    /\ filtered' = filter_matches_by_league(matches)
    /\ log' = <<>>
    /\ err' = [NoFlags EXCEPT !.fetch = failed]
    /\ IF matches = <<>> \/ filter_matches_by_league(matches) = <<>>
       THEN pc' = "sleep" /\ i' = 0
       ELSE pc' = "process" /\ i' = 1
    /\ UNCHANGED <<api_token, telegram_token, bot, processed_events, last_sent, life,
                   cycles, feed, attr, score, req>>

Fetch == \E s \in Snapshots : Poll(s, FALSE)

\* get_live_matches ran out of attempts and returned []
FetchFails == Poll(<<>>, TRUE)

LoopLeft == "stopped"
StraightBack == "poll"
\* where the loop goes from its except clause: it logs, sleeps and runs again
AfterCycleError == "sleep"

\* one pass of "for match in filtered_matches": process_match_events and the
\* last_sent update, or the exception that leaves the loop body
ProcessMatch ==
    /\ pc = "process"
    /\ \E match \in {filtered[i]} : \E ex \in {extract_events(match)} :
           IF ex.raises
           THEN /\ pc' = AfterCycleError
                /\ err' = [err EXCEPT !.cycle = TRUE, !.failed = i]
                /\ UNCHANGED <<i, processed_events, last_sent, log, life>>
           ELSE \E delivered \in [1..Len(ex.events) -> BOOLEAN] :
                   \E st \in {RunEvents(match, ex.events, 1, delivered,
                                 [bot |-> bot, processed |-> processed_events,
                                  log |-> log, life |-> life])} :
                       /\ processed_events' = st.processed
                       /\ log' = st.log
                       /\ life' = st.life
                       /\ last_sent' = (match.id :> [home_score |-> extract_score(match)[1],
                                                     away_score |-> extract_score(match)[2]])
                                       @@ last_sent
                       /\ err' = [err EXCEPT !.done = @ \cup {i}]
                       /\ IF i < Len(filtered)
                          THEN pc' = "process" /\ i' = i + 1
                          ELSE pc' = "cleanup" /\ i' = 0
    /\ UNCHANGED <<api_token, telegram_token, bot, filtered, cycles, feed, attr, score, req>>

\* the identifiers the sweep removes for one finished match
Mids(match) == {match.events[k].id : k \in 1..Len(match.events)}

IsTerminal(match) ==
    (IF match.state.status = NoneS THEN <<>> ELSE match.state.status) \in TerminalStatuses

\* the cleanup loop over filtered_matches from index k on
RECURSIVE Sweep(_, _, _)
Sweep(ms, k, st) ==
    IF k > Len(ms) THEN st
    ELSE IF IsTerminal(ms[k])
    THEN Sweep(ms, k + 1,
             [processed |-> st.processed \ Mids(ms[k]),
              last_sent |-> [m \in DOMAIN st.last_sent \ {ms[k].id} |-> st.last_sent[m]],
              life |-> [e \in EventIds |->
                           IF Owner(e) = ms[k].id THEN "none" ELSE st.life[e]]])
    ELSE Sweep(ms, k + 1, st)

Cleanup ==
    /\ pc = "cleanup"
    /\ LET st == Sweep(filtered, 1, [processed |-> processed_events,
                                     last_sent |-> last_sent, life |-> life])
       IN  /\ processed_events' = st.processed
           /\ last_sent' = st.last_sent
           /\ life' = st.life
    /\ err' = [err EXCEPT !.swept = TRUE]
    /\ pc' = "sleep"
    /\ UNCHANGED <<api_token, telegram_token, bot, filtered, i, log, cycles, feed,
                   attr, score, req>>

\* asyncio.sleep(self.polling_interval), then the next pass of while True
SleepThen(finished) ==
    /\ pc = "sleep"
    /\ pc' = "poll"
    /\ filtered' = <<>> /\ i' = 0
    /\ log' = <<>> /\ err' = NoFlags
    /\ cycles' = finished
    /\ UNCHANGED <<api_token, telegram_token, bot, processed_events, last_sent,
                   life, feed, attr, score, req>>

Sleep == SleepThen(cycles)

Next ==
    \/ StartRefused
    \/ Start
    \/ Fetch
    \/ FetchFails
    \/ ProcessMatch
    \/ Cleanup
    \/ Sleep

Spec == Init /\ [][Next]_vars


-----------------------------------------------------------------------------
(* Two passes over one snapshot: the provider serves the same snapshot twice *)

Passes == 2

InitTwice ==
    /\ pc = "start"
    /\ api_token = TRUE /\ telegram_token = TRUE
    /\ bot = FALSE /\ feed \in Snapshots
    /\ Idle

FetchFeed == cycles < Passes /\ Poll(feed, FALSE)

SleepCounted == SleepThen(cycles + 1)

NextTwice ==
    \/ Start
    \/ FetchFeed
    \/ ProcessMatch
    \/ Cleanup
    \/ SleepCounted

SpecTwice == InitTwice /\ [][NextTwice]_vars

\* Two passes over the snapshot of match 500: home "Alpha FC" (id 1), away
\* "Beta FC" (id 2), one goal with identifier 9001 at minute 23 for team 2; the
\* league is any of two whitelisted ones, the clock state any of the forms below
\* (NoneS and None: the field is absent)
ScenarioSnapshots ==
    {<<[Match(500, l, st, <<"Alpha FC">>, <<RawEvent(9001, 14, 23, None, NoneS, 2)>>)
           EXCEPT !.state.period = pd, !.state.minute = mn]>> :
        l \in {8, 2286}, st \in {NoneS, <<"LIVE">>, <<"HT">>, <<"FT">>},
        pd \in {NoneS, <<"1","H">>, <<"2","H">>}, mn \in {None, 50}}

InitScenario ==
    /\ pc = "start"
    /\ api_token = TRUE /\ telegram_token = TRUE
    /\ bot = FALSE /\ feed \in ScenarioSnapshots
    /\ Idle

SpecScenario == InitScenario /\ [][NextTwice]_vars

\* Two passes over a snapshot of up to two matches, in either order, whose league
\* is whitelisted (8, 2286), not whitelisted (7) or missing (None)
LeagueMatches(m) ==
    {Match(m, l, <<"LIVE">>, <<"Alpha FC">>,
           <<RawEvent(IF m = 1 THEN 1 ELSE 3, 14, 12, None, NoneS, 1)>>) :
        l \in {8, 2286, 7, None}}

LeagueSnapshots ==
    {<<>>} \cup {<<x>> : x \in LeagueMatches(1) \cup LeagueMatches(2)}
           \cup {<<x, y>> : x \in LeagueMatches(1), y \in LeagueMatches(2)}
           \cup {<<y, x>> : x \in LeagueMatches(1), y \in LeagueMatches(2)}

InitLeague ==
    /\ pc = "start"
    /\ api_token = TRUE /\ telegram_token = TRUE
    /\ bot = FALSE /\ feed \in LeagueSnapshots
    /\ Idle

SpecLeague == InitLeague /\ [][NextTwice]_vars

\* The loop under the scheduling of asyncio, where a coroutine that can run is
\* resumed; the provider serves snapshots of match 1 only
\* the snapshots that list the first fixture alone
SnapshotsOfOne == SnapshotsOver({1})

FetchOne == \E s \in SnapshotsOfOne : Poll(s, FALSE)

NextFair ==
    \/ StartRefused
    \/ Start
    \/ FetchOne
    \/ FetchFails
    \/ ProcessMatch
    \/ Cleanup
    \/ Sleep

FairSpec == Init /\ [][NextFair]_vars /\ WF_vars(NextFair)

\* The loop over snapshots of one match whose sub-events carry any type code
\* (14 goal, 19 yellow card, 18 substitution, 10 VAR) with or without a team hint
KindForms(e) ==
    {RawEvent(e, ty, 10 + e, None, NoneS, tid) : ty \in {14, 19, 18, 10}, tid \in {1, None}}

RECURSIVE KindLists(_)
KindLists(ids) ==
    IF ids = {} THEN {<<>>}
    ELSE LET e == CHOOSE x \in ids : \A y \in ids : x >= y
             rest == KindLists(ids \ {e})
         IN  rest \cup {Append(l, f) : l \in rest, f \in KindForms(e)}

KindSnapshots ==
    {<<Match(1, 8, st, <<"Alpha FC">>, evs)>> :
        st \in LoopStatuses, evs \in KindLists({1, 2})}

FetchKinds == \E s \in KindSnapshots : Poll(s, FALSE)

NextKinds ==
    \/ StartRefused
    \/ Start
    \/ FetchKinds
    \/ FetchFails
    \/ ProcessMatch
    \/ Cleanup
    \/ Sleep

SpecKinds == Init /\ [][NextKinds]_vars

-----------------------------------------------------------------------------
(* A run of get_live_matches *)

AttemptRangeOfFour == 0..3
\* for attempt in range(3)
AttemptRange == 0..2

\* what one requests.get can bring: a 2xx response, a 429 response, a response
\* raise_for_status() rejects, or an exception of requests.get itself
RequestOutcomes == {"ok", "429", "http_error", "exception"}

\* what response.json() finds in the body: a dict with a list under 'data', a
\* dict without 'data', a dict with 'data': null, JSON that is no dict, no JSON.
\* A 429 response carries an error body
Bodies(response) ==
    IF response = "ok"
    THEN {[kind |-> "data", data |-> d] : d \in {<<>>, <<7>>, <<7, 8>>}}
         \cup {[kind |-> k, data |-> <<>>] : k \in {"no_data", "null_data", "no_dict", "no_json"}}
    ELSE {[kind |-> k, data |-> <<>>] : k \in {"no_data", "no_json"}}

\* time.sleep(0.8 * (attempt + 1)) and time.sleep(0.5 * (attempt + 1)), in tenths
Backoff(outcome, attempt) == (IF outcome = "429" THEN 8 ELSE 5) * (attempt + 1)

\* the outer "except Exception": the error is logged and [] returned
Caught(r) == [r EXCEPT !.result = <<>>]

InitFetch ==
    /\ pc = "request"
    /\ api_token = TRUE /\ telegram_token = TRUE /\ bot = FALSE /\ feed = <<>>
    /\ filtered = <<>> /\ i = 0
    /\ processed_events = {} /\ last_sent = <<>>
    /\ log = <<>> /\ life = NoLife /\ err = NoFlags
    /\ cycles = 0 /\ attr = <<>> /\ score = <<>>
    /\ req = [attempt |-> 0, history |-> <<>>, slept |-> <<>>, response |-> "unbound",
              body |-> "unread", result |-> <<>>, escaped |-> FALSE]

\* one pass of the for loop: requests.get and what follows it
Request ==
    /\ pc = "request"
    /\ req.attempt \in AttemptRange
    /\ \E outcome \in RequestOutcomes :
          LET sent == [req EXCEPT !.history = Append(@, outcome)]
              next == req.attempt + 1
              waited == [sent EXCEPT !.slept = Append(@, Backoff(outcome, req.attempt)),
                                      !.attempt = next]
          IN  CASE outcome = "ok" ->
                     \* break
                     /\ req' = [sent EXCEPT !.response = "ok"]
                     /\ pc' = "decode"
                [] outcome = "429" ->
                     \* sleep and continue
                     /\ req' = [waited EXCEPT !.response = "429"]
                     /\ pc' = IF next \in AttemptRange THEN "request" ELSE "decode"
                [] OTHER ->
                     \* the except clause of the loop: raise on the last attempt
                     LET got == IF outcome = "http_error"
                                THEN [sent EXCEPT !.response = "error"] ELSE sent
                     IN  IF req.attempt = 2
                         THEN /\ req' = Caught(got)
                              /\ pc' = "fetched"
                         ELSE /\ req' = [got EXCEPT !.attempt = next,
                                             !.slept = Append(@, Backoff(outcome, req.attempt))]
                              /\ pc' = IF next \in AttemptRange THEN "request" ELSE "decode"
    /\ UNCHANGED <<api_token, telegram_token, bot, filtered, i, processed_events,
                   last_sent, log, life, err, cycles, feed, attr, score>>

\* data = response.json(); matches = data.get('data', []); len(matches); any
\* exception ends in the outer except clause, which returns []
Decode ==
    /\ pc = "decode"
    /\ IF req.response = "unbound"
       THEN req' = Caught(req)
       ELSE \E b \in Bodies(req.response) :
               req' = IF b.kind = "data"
                      THEN [req EXCEPT !.body = b.kind, !.result = b.data]
                      ELSE Caught([req EXCEPT !.body = b.kind])
    /\ pc' = "fetched"
    /\ UNCHANGED <<api_token, telegram_token, bot, filtered, i, processed_events,
                   last_sent, log, life, err, cycles, feed, attr, score>>

NextFetch == Request \/ Decode

SpecFetch == InitFetch /\ [][NextFetch]_vars

-----------------------------------------------------------------------------
(* A run of extract_events on one match *)

Player(id, name) == [id |-> id, name |-> name]
Lineup(participant_id, participant_name, players) ==
    [participant_id |-> participant_id, participant_name |-> participant_name,
     players |-> players]

\* player 7 "Pal" plays for contestant 1, player 8 "Qui" for contestant 2
Lineups == <<Lineup(1, <<"Alpha FC">>, <<Player(7, <<"Pal">>)>>),
             Lineup(2, <<"Beta FC">>, <<Player(8, <<"Qui">>)>>)>>

\* one raw event with every combination of hints
HintedEvents ==
    {[RawEvent(1, 14, 23, None, NoneS, team_id) EXCEPT
         !.participant_id = participant_id, !.player_id = player_id,
         !.location = location, !.player_name = player_name, !.team_name = team_name] :
        team_id \in {None, 1, 9}, participant_id \in {None, 2},
        player_id \in {None, 7, 5}, location \in {NoneS, <<"home">>, <<"away">>},
        player_name \in {NoneS, <<"Qui">>},
        team_name \in {NoneS, <<" ", "Gamma", " ">>}}

AttrMatches ==
    {[Match(1, 8, <<"LIVE">>, <<"Alpha FC">>, <<e>>) EXCEPT !.lineups = Lineups] :
        e \in HintedEvents}

InitAttr ==
    /\ pc = "extract"
    /\ api_token = TRUE /\ telegram_token = TRUE /\ bot = FALSE /\ feed = <<>>
    /\ filtered = <<>> /\ i = 0
    /\ processed_events = {} /\ last_sent = <<>>
    /\ log = <<>> /\ life = NoLife /\ err = NoFlags
    /\ cycles = 0 /\ score = <<>> /\ req = <<>>
    /\ \E m \in AttrMatches : attr = [match |-> m, out |-> <<>>]

Extract ==
    /\ pc = "extract"
    /\ attr' = [attr EXCEPT !.out = extract_events(attr.match)]
    /\ pc' = "extracted"
    /\ UNCHANGED <<api_token, telegram_token, bot, filtered, i, processed_events,
                   last_sent, log, life, err, cycles, feed, score, req>>

NextAttr == Extract

SpecAttr == InitAttr /\ [][NextAttr]_vars

\* extract_events on a match whose two sub-events come in either order of their
\* identifiers and times
OrderMatches ==
    {Match(1, 8, <<"LIVE">>, <<"Alpha FC">>,
           <<RawEvent(ids[1], ty[1], t1[1], t1[2], NoneS, 1),
             RawEvent(ids[2], ty[2], t2[1], t2[2], NoneS, 2)>>) :
        ids \in {x \in EventIds \X EventIds : x[1] # x[2]},
        ty \in {14, 19} \X {14, 19},
        t1 \in {<<12, None>>, <<45, 2>>, <<67, None>>},
        t2 \in {<<12, None>>, <<45, 2>>, <<67, None>>}}

InitOrder ==
    /\ pc = "extract"
    /\ api_token = TRUE /\ telegram_token = TRUE /\ bot = FALSE /\ feed = <<>>
    /\ filtered = <<>> /\ i = 0
    /\ processed_events = {} /\ last_sent = <<>>
    /\ log = <<>> /\ life = NoLife /\ err = NoFlags
    /\ cycles = 0 /\ score = <<>> /\ req = <<>>
    /\ \E m \in OrderMatches : attr = [match |-> m, out |-> <<>>]

SpecOrder == InitOrder /\ [][NextAttr]_vars

-----------------------------------------------------------------------------
(* A run of calculate_progressive_score for the message of one goal *)

MaxGoals == 2

GoalTimes == {<<12, None>>, <<45, 2>>, <<67, None>>}
\* (type_id, team_id) of a goal: a goal of the home side, a penalty of the away
\* side, an own goal by either side, a goal without any hint
GoalKinds == {<<14, 1>>, <<15, 2>>, <<16, 1>>, <<16, 2>>, <<14, None>>}

\* lists of n goals; the k-th goal of a list has identifier k
RECURSIVE GoalLists(_)
GoalLists(n) ==
    IF n = 0 THEN {<<>>}
    ELSE {Append(l, RawEvent(n, kd[1], t[1], t[2], NoneS, kd[2])) :
             l \in GoalLists(n - 1), t \in GoalTimes, kd \in GoalKinds}

ScoreMatches ==
    {Match(1, 8, <<"LIVE">>, <<"Alpha FC">>, evs) :
        evs \in UNION {GoalLists(n) : n \in 1..MaxGoals}}

InitScore ==
    /\ pc = "score"
    /\ api_token = TRUE /\ telegram_token = TRUE /\ bot = FALSE /\ feed = <<>>
    /\ filtered = <<>> /\ i = 0
    /\ processed_events = {} /\ last_sent = <<>>
    /\ log = <<>> /\ life = NoLife /\ err = NoFlags
    /\ cycles = 0 /\ attr = <<>> /\ req = <<>>
    /\ \E m \in ScoreMatches : \E n \in DOMAIN extract_events(m).events :
          /\ extract_events(m).events[n].type_id \in GOAL_EVENT_IDS
          /\ score = [match |-> m, current_event |-> extract_events(m).events[n],
                      goal_events |-> GoalEvents(m), k |-> 1, h |-> 0, a |-> 0]

\* one pass of "for g in goal_events"
ScoreIter ==
    /\ pc = "score"
    /\ score.k <= Len(score.goal_events)
    /\ LET g == score.goal_events[score.k]
           ha == ScoreStep(score.match, g, <<score.h, score.a>>)
       IN  IF AfterCurrent(g, score.current_event)
           THEN pc' = "scored" /\ score' = score
           ELSE pc' = pc /\ score' = [score EXCEPT !.k = @ + 1, !.h = ha[1], !.a = ha[2]]
    /\ UNCHANGED <<api_token, telegram_token, bot, filtered, i, processed_events,
                   last_sent, log, life, err, cycles, feed, attr, req>>

\* the loop ran out of goals: return h, a
ScoreReturn ==
    /\ pc = "score"
    /\ score.k > Len(score.goal_events)
    /\ pc' = "scored"
    /\ UNCHANGED <<api_token, telegram_token, bot, filtered, i, processed_events,
                   last_sent, log, life, err, cycles, feed, attr, score, req>>

NextScore == ScoreIter \/ ScoreReturn

SpecScore == InitScore /\ [][NextScore]_vars

\* calculate_progressive_score on a match with up to two goals, each valid or
\* tagged as disallowed or void
TaggedGoals(id) ==
    {RawEvent(id, kd[1], t, None, r, kd[2]) :
        kd \in {<<14, 1>>, <<15, 2>>, <<16, 1>>}, t \in {12, 67},
        r \in {NoneS, <<"d","i","s","a","l","l","o","w","e","d">>, <<"V","O","I","D">>}}

TaggedScoreMatches ==
    {Match(1, 8, <<"LIVE">>, <<"Alpha FC">>, evs) :
        evs \in {<<g>> : g \in TaggedGoals(1)}
                 \cup {<<g, f>> : g \in TaggedGoals(1), f \in TaggedGoals(2)}}

InitTagged ==
    /\ pc = "score"
    /\ api_token = TRUE /\ telegram_token = TRUE /\ bot = FALSE /\ feed = <<>>
    /\ filtered = <<>> /\ i = 0
    /\ processed_events = {} /\ last_sent = <<>>
    /\ log = <<>> /\ life = NoLife /\ err = NoFlags
    /\ cycles = 0 /\ attr = <<>> /\ req = <<>>
    /\ \E m \in TaggedScoreMatches : \E n \in DOMAIN extract_events(m).events :
          /\ extract_events(m).events[n].type_id \in GOAL_EVENT_IDS
          /\ score = [match |-> m, current_event |-> extract_events(m).events[n],
                      goal_events |-> GoalEvents(m), k |-> 1, h |-> 0, a |-> 0]

SpecTagged == InitTagged /\ [][NextScore]_vars

-----------------------------------------------------------------------------
(* Properties of the loop and the processed-event cache *)

\* send_telegram_message is called for sub-event e in this step
AttemptedIn(e) == \E k \in (Len(log) + 1)..Len(log') : log'[k].id = e

\* the raw sub-events of a match, as a set
RawOf(match) == {match.events[k] : k \in 1..Len(match.events)}

\* C1: a second cycle over the identical snapshot dispatches no notification.
Idempotent == (pc = "sleep" /\ cycles = 1) => \A k \in DOMAIN log : ~log[k].sent

\* C2: once a notification for identifier e was dispatched and e marked, no later
\* step dispatches e again until the cleanup of its match's entry.
NotifiedOnce == [][\A e \in EventIds : life[e] # "none" => ~AttemptedIn(e)]_vars

NotifiedOnceSeen ==
    /\ pc = "sleep" /\ err.swept
    /\ \E k \in DOMAIN filtered : \E e \in RawOf(filtered[k]) :
          /\ e.result = NoneS
          /\ life[e.id] # "none"
          /\ \A n \in DOMAIN log : log[n].id # e.id

\* C3: after a cycle that saw match M with a terminal status and ran the sweep, no
\* identifier of M is left in processed_events and M has no last_sent entry.
CleanupComplete ==
    (pc = "sleep" /\ err.swept) =>
        \A k \in DOMAIN filtered :
            IsTerminal(filtered[k]) =>
                /\ \A e \in processed_events : Owner(e) # filtered[k].id
                /\ filtered[k].id \notin DOMAIN last_sent

\* the same letter in either case
SameLetter(x, y) == x = y \/ <<x, y>> \in
    {<<"c","C">>, <<"a","A">>, <<"n","N">>, <<"e","E">>, <<"l","L">>, <<"d","D">>,
     <<"i","I">>, <<"s","S">>, <<"o","O">>, <<"w","W">>, <<"v","V">>,
     <<"C","c">>, <<"A","a">>, <<"N","n">>, <<"E","e">>, <<"L","l">>, <<"D","d">>,
     <<"I","i">>, <<"S","s">>, <<"O","o">>, <<"W","w">>, <<"V","v">>}
EqualsIgnoringCase(s, t) == Len(s) = Len(t) /\ \A k \in 1..Len(s) : SameLetter(s[k], t[k])
TaggedVoid(e) ==
    \E t \in {<<"c","a","n","c","e","l","l","e","d">>,
              <<"d","i","s","a","l","l","o","w","e","d">>, <<"v","o","i","d">>} :
        EqualsIgnoringCase(e.result, t)

\* C4: a raw sub-event tagged cancelled, disallowed or void in any letter case is
\* not in the list extract_events returns, causes no notification and is not added
\* to processed_events by the processing of its snapshot.
VoidFiltered ==
    [][pc = "process" =>
          \A e \in RawOf(filtered[i]) :
              TaggedVoid(e) =>
                  /\ \A k \in DOMAIN extract_events(filtered[i]).events :
                        extract_events(filtered[i]).events[k].id # e.id
                  /\ ~AttemptedIn(e.id)
                  /\ e.id \in processed_events' => e.id \in processed_events]_vars

VoidFilteredSeen ==
    /\ pc = "sleep" /\ err.swept
    /\ \E k \in DOMAIN filtered : \E e \in RawOf(filtered[k]) :
          /\ TaggedVoid(e) /\ e.result \notin VoidResults
          /\ e.id \notin processed_events
          /\ \E n \in DOMAIN log : log[n].match_id = filtered[k].id

\* C8: a failure while processing one match leaves every other match of the cycle
\* processed, with its last_sent entry written, and the cleanup sweep run.
FailureIsolated ==
    (pc = "sleep" /\ err.cycle) =>
        /\ \A k \in DOMAIN filtered :
              k # err.failed => k \in err.done /\ filtered[k].id \in DOMAIN last_sent
        /\ err.swept

\* a fetch failure, an exception caught by the loop, or a failed send in this cycle
ErrorSeen == err.fetch \/ err.cycle \/ \E k \in DOMAIN log : ~log[k].sent

\* C9: after a fetch failure, a dispatch failure or an exception inside a cycle the
\* loop comes back to the top of while True and polls again.
LoopGoesOn ==
    /\ (ErrorSeen /\ pc # "start") ~> (pc = "poll")
    /\ (pc = "poll") ~> (pc \in {"process", "sleep"})

LoopGoesOnSeen == pc = "sleep" /\ err.cycle

\* C10: an identifier whose send failed is in processed_events all the same, and
\* no later step sends it again while the entry of its match lives.
AtMostOnce ==
    [][\A e \in EventIds :
          /\ AttemptedIn(e) /\ life'[e] = "lost" => e \in processed_events'
          /\ life[e] = "lost" => e \in processed_events /\ ~AttemptedIn(e)]_vars

AtMostOnceSeen ==
    /\ pc = "sleep" /\ err.swept /\ bot
    /\ \E k \in DOMAIN filtered : \E e \in RawOf(filtered[k]) :
          /\ e.result = NoneS
          /\ life[e.id] = "lost"
          /\ \A n \in DOMAIN log : log[n].id # e.id


\* C14: for the snapshot of match 500 with one goal 9001 at minute 23 for the away
\* team, the first poll calls the channel exactly once with a text containing
\* "Alpha FC 0-1 Beta FC" and "23. perc", and a second identical poll sends nothing.
ScenarioHolds ==
    /\ (pc = "sleep" /\ cycles = 0) =>
          /\ Len(log) = 1
          /\ log[1].id = 9001
          /\ log[1].message.home_team = <<"Alpha FC">> /\ log[1].message.home_score = 0
          /\ log[1].message.away_score = 1 /\ log[1].message.away_team = <<"Beta FC">>
          /\ log[1].message.minute.form = "M. perc" /\ log[1].message.minute.m = 23
    /\ (pc = "sleep" /\ cycles = 1) => \A k \in DOMAIN log : ~log[k].sent

-----------------------------------------------------------------------------
(* Properties of get_live_matches and of start *)

\* C11: one call of get_live_matches issues at most 3 requests over any mix of 429
\* responses and other failures, issues none after the first successful response,
\* and returns an empty list, raising nothing, when all three attempts failed.
BoundedRetry ==
    /\ pc \in {"request", "decode", "fetched"} =>
          /\ Len(req.history) <= 3
          /\ \A k \in 1..(Len(req.history) - 1) : req.history[k] # "ok"
          /\ ~req.escaped
    /\ (pc = "fetched" /\ Len(req.history) = 3
          /\ \A k \in 1..3 : req.history[k] # "ok") => req.result = <<>>

BoundedRetrySeen ==
    /\ pc = "fetched"
    /\ req.history = <<"429", "exception", "429">>
    /\ req.result = <<>>

\* C12: with the data-source credential or the channel credential missing, start()
\* returns before the monitoring loop: nothing is fetched and nothing dispatched.
FailFast ==
    (~api_token \/ ~telegram_token) =>
        /\ pc \in {"start", "stopped"}
        /\ log = <<>> /\ filtered = <<>> /\ ~err.fetch
        /\ processed_events = {} /\ last_sent = <<>>

FailFastSeen == pc = "stopped" /\ api_token /\ ~telegram_token

-----------------------------------------------------------------------------
(* Properties of the score and of team identification *)

\* the raw sub-event a canonical event was built from
RawById(match, id) == CHOOSE e \in RawOf(match) : e.id = id

RawKey(e) == <<OrZero(e.minute), OrZero(e.extra_minute), OrZero(e.id)>>

\* the goal events with a resolved side at or before the raw event target
GoalsUpTo(match, target) ==
    {g \in RawOf(match) :
        /\ g.type_id \in {14, 15, 16}
        /\ ScoredSide(match, g) # NoneS
        /\ ~KeyGT(RawKey(g), RawKey(target))}

\* C5: the score in the notification of a goal counts exactly the side-resolved
\* goals whose key (minute, extra minute, id) is at most the key of that goal.
ScoreAsOfTarget ==
    pc = "scored" =>
        score.h + score.a =
            Cardinality(GoalsUpTo(score.match, RawById(score.match, score.current_event.id)))

\* the five tiers, each tried when the ones before it gave no team
ContestantName(match, id) ==
    LET k == FirstIdx([n \in DOMAIN match.participants |->
                           match.participants[n].id = id], 1)
    IN  IF k = 0 THEN Unknown ELSE match.participants[k].name
TierTeam(match, e) ==
    LET tid == OrElse(e.team_id, e.participant_id)
        t1 == IF Truthy(tid) THEN ContestantName(match, tid) ELSE Unknown
        t2 == IF Truthy(e.player_id) /\ InPlayerToTeamId(match, e.player_id)
              THEN ContestantName(match, PlayerToTeamId(match, e.player_id))
              ELSE Unknown
        k3 == FirstIdx([n \in DOMAIN match.participants |->
                            match.participants[n].location = e.location], 1)
        t3 == IF e.location \in {<<"home">>, <<"away">>} /\ k3 # 0
              THEN match.participants[k3].name ELSE Unknown
        t4 == IF InPlayerTeamMap(match, e.player_name)
              THEN PlayerTeamMap(match, e.player_name) ELSE Unknown
        t5 == IF e.team_name # NoneS /\ Strip(e.team_name) # <<>>
              THEN Strip(e.team_name) ELSE Unknown
    IN  IF t1 # Unknown THEN t1
        ELSE IF t2 # Unknown THEN t2
        ELSE IF t3 # Unknown THEN t3
        ELSE IF t4 # Unknown THEN t4
        ELSE t5

\* C6: the team of an event is the result of the first tier that gives a team, in
\* the order team/participant id, player id, location, player name, team name.
FirstTierWins ==
    pc = "extracted" =>
        \A k \in DOMAIN attr.out.events :
            attr.out.events[k].team_name = TierTeam(attr.match, attr.match.events[k])

\* C13: extract_events returns the events in ascending order of (minute, extra
\* minute, identifier), whatever the order of the snapshot's event list.
ExtractSorted ==
    pc = "extracted" =>
        \A a, b \in DOMAIN attr.out.events :
            a < b => ~KeyGT(RawKey(RawById(attr.match, attr.out.events[a].id)),
                            RawKey(RawById(attr.match, attr.out.events[b].id)))

\* the teams under which the lineups of a match list a player id
LineupTeams(match, pid) ==
    {match.lineups[n].participant_id : n \in
        {n \in DOMAIN match.lineups :
            \E k \in DOMAIN match.lineups[n].players :
                match.lineups[n].players[k].id = pid}}

\* an event without team id, participant id and location whose player is listed
\* under contestant t alone
PlayerHintOnly(match, e, t) ==
    /\ e.team_id = None /\ e.participant_id = None /\ e.location = NoneS
    /\ e.player_id # None
    /\ LineupTeams(match, e.player_id) = {t}
    /\ \E n \in DOMAIN match.participants : match.participants[n].id = t

\* C15: an event with no team id, no participant id and no location whose player
\* id the lineups list under a contestant gets that contestant's name, not
\* 'Ismeretlen'.
PlayerTierResolves ==
    pc = "extracted" =>
        \A k \in DOMAIN attr.match.events : \A t \in {1, 2} :
            PlayerHintOnly(attr.match, attr.match.events[k], t) =>
                /\ ~attr.out.raises
                /\ attr.out.events[k].team_name = ContestantName(attr.match, t)
                /\ attr.out.events[k].team_name # Unknown

PlayerTierResolvesSeen ==
    /\ pc = "extracted"
    /\ PlayerHintOnly(attr.match, attr.match.events[1], 1)
    /\ attr.match.events[1].player_name = <<"Qui">>
    /\ attr.out.events[1].team_name = <<"Alpha FC">>

\* C7: an own goal (type 16) resolved to one side adds one to the other side's
\* tally and nothing to its own; types 14 and 15 add one to the resolved side.
OwnGoalInverted ==
    [][(pc = "score" /\ score'.k = score.k + 1) =>
          LET g == score.goal_events[score.k]
              side == ScoredSide(score.match, g)
              dh == score'.h - score.h
              da == score'.a - score.a
          IN  /\ (g.type_id = 16 /\ side = <<"home">>) => (dh = 0 /\ da = 1)
              /\ (g.type_id = 16 /\ side = <<"away">>) => (dh = 1 /\ da = 0)
              /\ (g.type_id \in {14, 15} /\ side = <<"home">>) => (dh = 1 /\ da = 0)
              /\ (g.type_id \in {14, 15} /\ side = <<"away">>) => (dh = 0 /\ da = 1)]_vars

OwnGoalInvertedSeen ==
    /\ pc = "scored" /\ score.k = 3
    /\ score.goal_events[1].type_id = 16 /\ score.goal_events[1].team_id = 1
    /\ score.goal_events[2].type_id = 16 /\ score.goal_events[2].team_id = 2
    /\ score.h = 1 /\ score.a = 1

-----------------------------------------------------------------------------
(* Properties of the events that are and are not notified *)

\* the send_telegram_message calls of this step for sub-event e
CallsIn(e) == {k \in (Len(log) + 1)..Len(log') : log'[k].id = e}

\* a goal or card event that is not void and that none of the five tiers resolves
Unresolvable(match, e) ==
    /\ e.type_id \in {14, 15, 16, 19, 20, 21}
    /\ ~TaggedVoid(e)
    /\ TierTeam(match, e) = Unknown

\* C16: a non-void goal or card event that no tier resolves is still returned by
\* extract_events, with the team 'Ismeretlen', and when its identifier is new the
\* processing of its match sends exactly one notification for it.
UnresolvedEmitted ==
    [][pc = "process" =>
          \A e \in RawOf(filtered[i]) :
              Unresolvable(filtered[i], e) =>
                  /\ \E k \in DOMAIN extract_events(filtered[i]).events :
                        /\ extract_events(filtered[i]).events[k].id = e.id
                        /\ extract_events(filtered[i]).events[k].team_name = Unknown
                  /\ e.id \notin processed_events =>
                        /\ Cardinality(CallsIn(e.id)) = 1
                        /\ \A k \in CallsIn(e.id) : log'[k].message.team_name = Unknown
                        /\ e.id \in processed_events']_vars

UnresolvedEmittedSeen ==
    /\ pc = "sleep" /\ err.swept /\ bot
    /\ \E k \in DOMAIN filtered : \E e \in RawOf(filtered[k]) :
          /\ Unresolvable(filtered[k], e)
          /\ \E n \in DOMAIN log :
                log[n].id = e.id /\ log[n].sent /\ log[n].message.team_name = Unknown

\* C20: a sub-event whose type code is neither a goal code nor a card code causes
\* no notification and its identifier is not added to processed_events, in any
\* sequence of polls.
OtherKindsSilent ==
    [][pc = "process" =>
          \A e \in RawOf(filtered[i]) :
              e.type_id \notin {14, 15, 16, 19, 20, 21} =>
                  /\ CallsIn(e.id) = {}
                  /\ e.id \in processed_events' => e.id \in processed_events]_vars

OtherKindsSilentSeen ==
    /\ pc = "sleep" /\ err.swept
    /\ \E k \in DOMAIN filtered : \E e, f \in RawOf(filtered[k]) :
          /\ e.type_id = 18 /\ e.id \notin processed_events
          /\ \A n \in DOMAIN log : log[n].id # e.id
          /\ \E n \in DOMAIN log : log[n].id = f.id

\* C17: the filtered list holds exactly the fetched matches whose league id is in
\* the allow-list, in their input order; an empty input gives an empty list, a
\* missing or unknown league id is excluded, and no call of the channel is made
\* for a match outside the allow-list.
LeagueFilterExact ==
    /\ pc \in {"process", "cleanup", "sleep"} =>
          /\ \A k \in DOMAIN filtered :
                /\ filtered[k].league_id \in WhitelistedLeagues
                /\ \E n \in DOMAIN feed : feed[n] = filtered[k]
          /\ \A n \in DOMAIN feed :
                feed[n].league_id \in WhitelistedLeagues =>
                    \E k \in DOMAIN filtered : filtered[k] = feed[n]
          /\ Len(filtered) =
                Cardinality({n \in DOMAIN feed : feed[n].league_id \in WhitelistedLeagues})
          /\ \A a, b \in DOMAIN filtered :
                a < b => \E x, y \in DOMAIN feed :
                            x < y /\ feed[x] = filtered[a] /\ feed[y] = filtered[b]
          /\ feed = <<>> => filtered = <<>>
    /\ \A k \in DOMAIN log :
          log[k].match_id # None =>
              \E n \in DOMAIN feed :
                  feed[n].id = log[k].match_id /\ feed[n].league_id \in WhitelistedLeagues
    /\ \A m \in DOMAIN last_sent :
          \E n \in DOMAIN feed : feed[n].id = m /\ feed[n].league_id \in WhitelistedLeagues

LeagueFilterExactSeen ==
    /\ pc = "sleep" /\ err.swept
    /\ Len(feed) = 2 /\ feed[1].league_id = None /\ feed[2].league_id = 2286
    /\ Len(filtered) = 1 /\ log # <<>>

\* C18: the progressive score counts canonical goal events only: a goal tagged
\* cancelled, disallowed or void adds to neither tally.
CanonicalGoalsOnly ==
    pc \in {"score", "scored"} =>
        score.h + score.a =
            Cardinality({n \in 1..(score.k - 1) :
                            /\ ~TaggedVoid(score.goal_events[n])
                            /\ ScoredSide(score.match, score.goal_events[n]) # NoneS})

\* the goals of the list that the loop has walked and whose side was resolved
ResolvedWalked ==
    {n \in 1..(score.k - 1) : ScoredSide(score.match, score.goal_events[n]) # NoneS}

\* C19: in calculate_progressive_score both tallies start at zero and are never
\* negative, a goal whose side cannot be resolved increments neither tally, and
\* home + away is the number of side-resolved goals counted up to the target,
\* so it never exceeds the number of goal events of the snapshot.
TalliesCountResolved ==
    pc \in {"score", "scored"} =>
        /\ score.h >= 0 /\ score.a >= 0
        /\ score.k = 1 => score.h = 0 /\ score.a = 0
        /\ score.h + score.a = Cardinality(ResolvedWalked)
        /\ score.h + score.a <= Len(score.goal_events)
        /\ pc = "scored" =>
              /\ \A n \in 1..(score.k - 1) :
                    ~AfterCurrent(score.goal_events[n], score.current_event)
              /\ score.k <= Len(score.goal_events) =>
                    AfterCurrent(score.goal_events[score.k], score.current_event)

\* the loop has returned after skipping an unresolved goal and counting a
\* resolved one
TalliesCountResolvedSeen ==
    /\ pc = "scored"
    /\ score.h + score.a >= 1
    /\ \E n \in 1..(score.k - 1) :
          ScoredSide(score.match, score.goal_events[n]) = NoneS

-----------------------------------------------------------------------------
(* Properties of the loop's state machine *)

\* the steps the loop may take between two fetches
CycleStep ==
    /\ pc = "poll" => pc' \in {"process", "sleep"}
    /\ pc = "process" => pc' \in {"process", "cleanup", "sleep"}
    /\ pc = "cleanup" => pc' = "sleep"
    /\ pc = "sleep" => pc' = "poll"
    /\ pc' = "poll" => pc \in {"start", "sleep"}

\* C21: on every path through a cycle (empty fetch, empty filtered set, normal
\* processing, a caught cycle exception) the loop passes through exactly one
\* sleep before the next fetch: a fetch is reached only from start() or from
\* the sleep, every path from a fetch leads to the sleep, and the sleep leads
\* straight to the next fetch.
SleepBetweenFetches == [][CycleStep]_vars

\* the loop sleeps after a cycle whose first match raised, in a run that has
\* processed events in an earlier cycle
SleepBetweenFetchesSeen ==
    /\ pc = "sleep"
    /\ err.cycle /\ err.failed = 1 /\ err.done = {}
    /\ processed_events # {}

-----------------------------------------------------------------------------
(* Properties of the score shown for the notified goal *)

\* the tally of the side the notified goal is written to
CreditedTally ==
    LET g == RawById(score.match, score.current_event.id)
    IN  IF CreditedSide(ScoredSide(score.match, g), g.type_id) = <<"home">>
        THEN score.h ELSE score.a

\* C22: the score shown in a goal notification counts the notified goal itself
\* when its side is resolved (home + away >= 1 and the credited side's tally
\* >= 1), also for a goal with a non-zero extra minute.
NotifiedGoalCounted ==
    pc = "scored" =>
        (ScoredSide(score.match, RawById(score.match, score.current_event.id)) # NoneS
            => score.h + score.a >= 1 /\ CreditedTally >= 1)

-----------------------------------------------------------------------------
(* Properties relating the two resolvers of a goal's team *)

\* the name of the contestant on a side
NameOfSide(match, side) == ContestantName(match, SideTeamId(match, side))

\* extract_events named one of the two contestants
NamesContestant(match, team_name) ==
    \E n \in DOMAIN match.participants : match.participants[n].name = team_name

\* C23: for every goal event and every combination of hints, the side that
\* calculate_progressive_score credits before the own-goal inversion is the
\* side of the team name that extract_events puts in the notification, and the
\* score credits no side exactly when extract_events resolves no contestant.
ResolversAgree ==
    pc = "extracted" /\ ~attr.out.raises =>
        \A k \in DOMAIN attr.out.events :
            LET e == attr.match.events[k]
                side == ScoredSide(attr.match, e)
                team_name == attr.out.events[k].team_name
            IN  e.type_id \in GOAL_EVENT_IDS =>
                    /\ side = NoneS <=> ~NamesContestant(attr.match, team_name)
                    /\ side # NoneS => team_name = NameOfSide(attr.match, side)

====
